---- MODULE Spec2Model ----
(***************************************************************************)
(* Model of src/src/main.rs: one record is created in building_tbl of an   *)
(* in-memory SurrealDB, then read back through db.select and db.query into *)
(* four serde shapes, and its Thing identifier is rendered through the     *)
(* IdTraits accessors.                                                     *)
(*                                                                         *)
(* Strings whose characters matter (table names, record keys, rendered     *)
(* identifiers) are sequences of one-character strings, so concatenation   *)
(* and bracket wrapping are computed.  Addresses are opaque strings.       *)
(***************************************************************************)
EXTENDS Naturals, Sequences, FiniteSets

VARIABLES
    store,    \* rows of building_tbl held by the engine (db)
    rid,      \* main: let rid     (the key text bound to $rid)
    address,  \* main: let address (bound to $addr)
    pc,       \* position in main / test_select / test_query / test_select_thing
    ret,      \* Result returned by the test function that last returned
    report,   \* per check: what the retrieval produced (the dbg! output)
    printed,  \* output of the println! lines 150-155, <<>> before they run
    runs      \* number of re-invocations of a test function (SpecRepeat only)

vars == <<store, rid, address, pc, ret, report, printed, runs>>

----------------------------------------------------------------------------
(* Bounds and input sets *)

MaxKeyLen == 3
MaxRuns == 4

KeyDigits == {"1", "2"}
KeyOther == {"a", "_"}

AsciiDigits == {"0", "1", "2", "3", "4", "5", "6", "7", "8", "9"}
AsciiLetters == {"a", "b", "c", "d", "e", "f", "g", "h", "i", "j", "k", "l", "m",
                 "n", "o", "p", "q", "r", "s", "t", "u", "v", "w", "x", "y", "z"}

\* the two bracket characters U+27E8 and U+27E9 of main.rs:14-16 and :145
BRACKET_L == "U+27E8"
BRACKET_R == "U+27E9"

StringsOver(chars, n) == UNION {[1..k -> chars] : k \in 1..n}

\* main.rs:169
table == <<"b", "u", "i", "l", "d", "i", "n", "g", "_", "t", "b", "l">>
\* main.rs:171
SeededRid == <<"1", "2", "3", "4", "5", "6", "7", "8", "9", "0">>
\* main.rs:170
SeededAddress == "123 Main St"

\* keys of decimal digits, as the one main binds
RidSet == {SeededRid} \cup StringsOver(KeyDigits, MaxKeyLen)
Addresses == {SeededAddress, "1 Elm St"}

\* text keys the accessors are applied to in SpecId
KeySet == {SeededRid} \cup StringsOver(KeyDigits \cup KeyOther, MaxKeyLen)

----------------------------------------------------------------------------
(* Thing and the IdTraits accessors *)

\* CREATE building_tbl SET id = $rid with $rid bound to a &str: the key of
\* the Thing is the bound text
Thing(tb, key) == [tb |-> tb, id |-> [text |-> key]]

IsNumericText(s) == \A i \in 1..Len(s) : s[i] \in AsciiDigits
IsPlainText(s) == \A i \in 1..Len(s) : s[i] \in AsciiDigits \cup AsciiLetters \cup {"_"}

Wrap(s) == <<BRACKET_L>> \o s \o <<BRACKET_R>>

\* variant: only text outside [A-Za-z0-9_] is wrapped, digits are left bare
escape_rid_NonPlainOnly(s) == IF ~IsPlainText(s) THEN Wrap(s) ELSE s

\* rendering of a table name or of a text key inside the canonical string:
\* text that would read as a decimal number, or that holds a character
\* outside [A-Za-z0-9_], is put between the two brackets
escape_rid(s) == IF IsNumericText(s) \/ ~IsPlainText(s) THEN Wrap(s) ELSE s

\* Id::to_raw: the bare key
Id_to_raw(id) == id.text

\* Thing::to_raw
Thing_to_raw(t) == escape_rid(t.tb) \o <<":">> \o escape_rid(t.id.text)

get_id(t) == Id_to_raw(t.id)

get_tbl(t) == t.tb

\* the alternative main.rs:20-21 leaves commented out
PlainConcat(t) == get_tbl(t) \o <<":">> \o get_id(t)

get_tbl_id(t) == Thing_to_raw(t)

----------------------------------------------------------------------------
(* Shapes and deserialization *)

\* variant: rid declared Option<String> in the required shape
BuildingWithRidString_Optional == [rid |-> "optional", address |-> "required"]

\* field name -> "required" (T) or "optional" (Option<T>)
BuildingWithThing == [id |-> "required", address |-> "required"]
BuildingWithRidString == [rid |-> "required", address |-> "required"]
BuildingWithRidOptionString == [rid |-> "optional", address |-> "required"]
Building == [address |-> "required"]

Unset == [tag |-> "Unset", rows |-> <<>>, msg |-> ""]
Ok(rows) == [tag |-> "Ok", rows |-> rows, msg |-> ""]
Err(msg) == [tag |-> "Err", rows |-> <<>>, msg |-> msg]

MissingField == "missing field"
EngineError == "engine"

\* serde derive(Deserialize) on one row: a declared Option field that the row
\* lacks is None (<<>>), a declared plain field that the row lacks is an
\* error, and fields of the row the shape does not declare are ignored
RowMissing(row, shape) ==
    \E f \in DOMAIN shape : shape[f] = "required" /\ f \notin DOMAIN row

FromRow(row, shape) ==
    [f \in DOMAIN shape |->
        IF shape[f] = "optional"
        THEN (IF f \in DOMAIN row THEN <<row[f]>> ELSE <<>>)
        ELSE row[f]]

\* variant: serde(deny_unknown_fields), a field the shape lacks is an error
from_value_DenyUnknown(rows, shape) ==
    IF \E i \in 1..Len(rows) : RowMissing(rows[i], shape)
    THEN Err(MissingField)
    ELSE IF \E i \in 1..Len(rows) : ~(DOMAIN rows[i] \subseteq DOMAIN shape)
         THEN Err("unknown field")
         ELSE Ok([i \in 1..Len(rows) |-> FromRow(rows[i], shape)])

\* Vec<shape> from the rows of a result
from_value(rows, shape) ==
    IF \E i \in 1..Len(rows) : RowMissing(rows[i], shape)
    THEN Err(MissingField)
    ELSE Ok([i \in 1..Len(rows) |-> FromRow(rows[i], shape)])

----------------------------------------------------------------------------
(* The engine *)

QUERY_ALL == "SELECT * FROM building_tbl"
QUERY_ALL_RID == "SELECT *,meta::id(id) AS rid FROM building_tbl"

\* variant: the key as it is rendered inside the canonical string
meta_id_Escaped(t) == escape_rid(t.id.text)

\* meta::id(id): the bare key of the record's identifier
meta_id(t) == Id_to_raw(t.id)

WithRid(row) ==
    [f \in DOMAIN row \cup {"rid"} |-> IF f = "rid" THEN meta_id(row.id) ELSE row[f]]

\* variant: select evaluates the rid alias as the query does
SelectRows_WithAlias == [i \in 1..Len(store) |-> WithRid(store[i])]

\* rows db.select("building_tbl") reads: the stored fields, nothing computed
SelectRows == store

\* variant: the alias requested by the query text is not evaluated
QueryRows_NoAlias(text) == store

\* rows of statement 0 of db.query(text)
QueryRows(text) ==
    IF text = QUERY_ALL_RID
    THEN [i \in 1..Len(store) |-> WithRid(store[i])]
    ELSE store

\* variant: the rows are taken out of the collection (db.delete returns them too)
store_after_delete == <<>>

\* the collection after db.select / after a SELECT statement: both only read
store_after_select == store

store_after_query == store

\* db.select("building_tbl").await into Vec<shape>; ok = the engine call succeeded
db_select(shape, ok) ==
    IF ok THEN from_value(SelectRows, shape) ELSE Err(EngineError)

\* db.query(text).await? followed by take(0) into Vec<shape>
db_query_take(text, shape, ok) ==
    IF ok THEN from_value(QueryRows(text), shape) ELSE Err(EngineError)

----------------------------------------------------------------------------
(* Positions and the report *)

Checks == {"select_opt", "select_plain", "select_req",
           "query_opt_norid", "query_opt_rid", "query_plain_norid", "query_plain_rid",
           "select_thing"}

\* the order in which main reaches the checks
Order == <<"select_opt", "select_plain", "select_req",
           "query_opt_norid", "query_opt_rid", "query_plain_norid", "query_plain_rid",
           "select_thing">>

Returns == {"ret_select", "ret_query", "ret_thing"}

\* assert_eq!(v.len(), 1); assert_eq!(v[0].address, address)
AssertOneWithAddress(r) == Len(r.rows) = 1 /\ r.rows[1].address = address

\* assert_eq!(v.len(), 1); assert_eq!(v[0].rid, want); assert_eq!(v[0].address, address)
AssertOneWithRid(r, want) ==
    Len(r.rows) = 1 /\ r.rows[1].rid = want /\ r.rows[1].address = address

\* the three accessor values printed by main.rs:150-155
Accessors(t) == [tbl_id |-> get_tbl_id(t), id |-> get_id(t), tbl |-> get_tbl(t)]

\* main.rs:140-146, with tbl = table and id = rid as main passes them
AssertThing(r) ==
    /\ Len(r.rows) = 1
    /\ get_tbl(r.rows[1].id) = table
    /\ get_id(r.rows[1].id) = rid
    /\ get_tbl_id(r.rows[1].id) = table \o <<":", BRACKET_L>> \o rid \o <<BRACKET_R>>
    /\ r.rows[1].address = address

\* a check whose Err leaves the function through `?`, and whose asserts panic
Step(check, r, asserts, next, retpc, isLast) ==
    /\ report' = [report EXCEPT ![check] = r]
    /\ IF r.tag = "Err"
       THEN pc' = retpc /\ ret' = "Err"
       ELSE IF ~asserts
            THEN pc' = "panicked" /\ ret' = ret
            ELSE IF isLast
                 THEN pc' = retpc /\ ret' = "Ok"
                 ELSE pc' = next /\ ret' = ret

----------------------------------------------------------------------------
(* Initial states *)

NoReport == [c \in Checks |-> Unset]

Init ==
    /\ rid \in RidSet
    /\ address \in Addresses
    /\ store = <<>>
    /\ pc = "create"
    /\ ret = "none"
    /\ report = NoReport
    /\ printed = <<>>
    /\ runs = 0

\* the collection as main seeds it, and a caller about to run the checks
InitRepeat ==
    /\ rid = SeededRid
    /\ address = SeededAddress
    /\ store = <<>>
    /\ pc = "create"
    /\ ret = "none"
    /\ report = NoReport
    /\ printed = <<>>
    /\ runs = 0

\* a fetched record with any table and text key, about to be rendered
InitId ==
    /\ rid \in KeySet
    /\ address \in Addresses
    /\ store = <<[id |-> Thing(table, rid), address |-> address]>>
    /\ pc = "id_traits"
    /\ ret = "none"
    /\ report = NoReport
    /\ printed = <<>>
    /\ runs = 0

----------------------------------------------------------------------------
(* main: the seeding write, main.rs:168-178 *)

CreatedRow == [id |-> Thing(table, rid), address |-> address]

Create ==
    /\ pc = "create"
    /\ \E ok \in BOOLEAN :
        IF ok
        THEN store' = <<CreatedRow>> /\ pc' = "created"
        ELSE store' = store /\ pc' = "err"
    /\ UNCHANGED <<rid, address, ret, report, printed, runs>>

----------------------------------------------------------------------------
(* test_select, main.rs:57-85 *)

SelectOpt ==
    /\ pc = "select_opt"
    /\ \E ok \in BOOLEAN :
        LET r == db_select(BuildingWithRidOptionString, ok)
        IN  Step("select_opt", r, AssertOneWithRid(r, <<>>), "select_plain",
                 "ret_select", FALSE)
    /\ store' = store_after_select
    /\ UNCHANGED <<rid, address, printed, runs>>

SelectPlain ==
    /\ pc = "select_plain"
    /\ \E ok \in BOOLEAN :
        LET r == db_select(Building, ok)
        IN  Step("select_plain", r, AssertOneWithAddress(r), "select_req",
                 "ret_select", FALSE)
    /\ store' = store_after_select
    /\ UNCHANGED <<rid, address, printed, runs>>

\* the match of main.rs:73-82: Ok panics, an Err must say "missing field"
SelectReq ==
    /\ pc = "select_req"
    /\ \E ok \in BOOLEAN :
        LET r == db_select(BuildingWithRidString, ok)
        IN  /\ report' = [report EXCEPT !["select_req"] = r]
            /\ IF r.tag = "Err" /\ r.msg = MissingField
               THEN pc' = "ret_select" /\ ret' = "Ok"
               ELSE pc' = "panicked" /\ ret' = ret
    /\ store' = store_after_select
    /\ UNCHANGED <<rid, address, printed, runs>>

----------------------------------------------------------------------------
(* test_query, main.rs:88-135 *)

QueryOptNoRid ==
    /\ pc = "query_opt_norid"
    /\ \E ok \in BOOLEAN :
        LET r == db_query_take(QUERY_ALL, BuildingWithRidOptionString, ok)
        IN  Step("query_opt_norid", r, AssertOneWithRid(r, <<>>), "query_opt_rid",
                 "ret_query", FALSE)
    /\ store' = store_after_query
    /\ UNCHANGED <<rid, address, printed, runs>>

QueryOptRid ==
    /\ pc = "query_opt_rid"
    /\ \E ok \in BOOLEAN :
        LET r == db_query_take(QUERY_ALL_RID, BuildingWithRidOptionString, ok)
        IN  Step("query_opt_rid", r, AssertOneWithRid(r, <<rid>>), "query_plain_norid",
                 "ret_query", FALSE)
    /\ store' = store_after_query
    /\ UNCHANGED <<rid, address, printed, runs>>

QueryPlainNoRid ==
    /\ pc = "query_plain_norid"
    /\ \E ok \in BOOLEAN :
        LET r == db_query_take(QUERY_ALL, Building, ok)
        IN  Step("query_plain_norid", r, AssertOneWithAddress(r), "query_plain_rid",
                 "ret_query", FALSE)
    /\ store' = store_after_query
    /\ UNCHANGED <<rid, address, printed, runs>>

QueryPlainRid ==
    /\ pc = "query_plain_rid"
    /\ \E ok \in BOOLEAN :
        LET r == db_query_take(QUERY_ALL_RID, Building, ok)
        IN  Step("query_plain_rid", r, AssertOneWithAddress(r), "ret_query",
                 "ret_query", TRUE)
    /\ store' = store_after_query
    /\ UNCHANGED <<rid, address, printed, runs>>

----------------------------------------------------------------------------
(* test_select_thing_with_id_traits, main.rs:137-158 *)

SelectThing ==
    /\ pc = "select_thing"
    /\ \E ok \in BOOLEAN :
        LET r == db_select(BuildingWithThing, ok)
        IN  /\ Step("select_thing", r, AssertThing(r), "ret_thing", "ret_thing", TRUE)
            /\ printed' = IF r.tag = "Ok" /\ AssertThing(r)
                          THEN <<Accessors(r.rows[1].id)>>
                          ELSE printed
    /\ store' = store_after_select
    /\ UNCHANGED <<rid, address, runs>>

\* main.rs:148-155 alone, on a record already fetched
IdTraits ==
    /\ pc = "id_traits"
    /\ printed' = <<Accessors(store[1].id)>>
    /\ pc' = "done"
    /\ UNCHANGED <<store, rid, address, ret, report, runs>>

----------------------------------------------------------------------------
(* main's sequencing, main.rs:180-184: each call is followed by `?` *)

\* variant: main goes on to the next test function whatever was returned
MainAfter_Continuing(p, r) ==
    IF p = "created" THEN "select_opt"
    ELSE IF p = "ret_select" THEN "query_opt_norid"
    ELSE IF p = "ret_query" THEN "select_thing"
    ELSE "done"

MainAfter(p, r) ==
    IF p # "created" /\ r = "Err" THEN "err"
    ELSE IF p = "created" THEN "select_opt"
    ELSE IF p = "ret_select" THEN "query_opt_norid"
    ELSE IF p = "ret_query" THEN "select_thing"
    ELSE "done"

MainNext ==
    /\ pc \in Returns \cup {"created"}
    /\ pc' = MainAfter(pc, ret)
    /\ UNCHANGED <<store, rid, address, ret, report, printed, runs>>

\* a caller that runs the three test functions again, any of them, after the
\* seeding write or after one of them has returned
Reinvoke ==
    /\ pc \in Returns \cup {"created"}
    /\ runs < MaxRuns
    /\ runs' = runs + 1
    /\ pc' \in {"select_opt", "query_opt_norid", "select_thing"}
    /\ UNCHANGED <<store, rid, address, ret, report, printed>>

----------------------------------------------------------------------------
(* Specifications *)

Retrieve ==
    \/ SelectOpt
    \/ SelectPlain
    \/ SelectReq
    \/ QueryOptNoRid
    \/ QueryOptRid
    \/ QueryPlainNoRid
    \/ QueryPlainRid
    \/ SelectThing

Next == Create \/ Retrieve \/ MainNext

NextRepeat == Create \/ Retrieve \/ Reinvoke

NextId == IdTraits

\* main as written
Spec == Init /\ [][Next]_vars

\* the checks run again and again, in any order, on the seeded collection
SpecRepeat == InitRepeat /\ [][NextRepeat]_vars

\* the accessors applied to every identifier of the bounded sets
SpecId == InitId /\ [][NextId]_vars

----------------------------------------------------------------------------
(* Properties *)

OptRow(opt) == [rid |-> opt, address |-> address]
PlainRow == [address |-> address]

\* a retrieval that was run either produced the rows or failed in the engine
OkOrEngine(r, rows) ==
    \/ r.tag = "Unset"
    \/ r.tag = "Ok" /\ r.rows = rows
    \/ r.tag = "Err" /\ r.msg = EngineError

\* C1: db.select of the one-record collection into the shape with
\* rid: Option<String> yields exactly one row with rid = None and the stored
\* address, although the stored row carries its identifier; the rows select
\* reads never hold a rid field.
C1_SelectOptionYieldsNone ==
    /\ OkOrEngine(report["select_opt"], <<OptRow(<<>>)>>)
    /\ store # <<>> =>
        /\ "id" \in DOMAIN store[1]
        /\ \A i \in 1..Len(SelectRows) : "rid" \notin DOMAIN SelectRows[i]
        /\ db_select(BuildingWithRidOptionString, TRUE) = Ok(<<OptRow(<<>>)>>)

C1_Witness ==
    /\ report["select_opt"].tag = "Ok"
    /\ rid = SeededRid
    /\ address = SeededAddress

\* C2: on the query path into the shape with rid: Option<String>, rid is
\* Some(bare key) exactly when the query text asks for meta::id(id) AS rid;
\* without it rid is None, the same result as db.select gives; the address
\* is the stored one in both cases.
C2_QueryRidIffRequested ==
    /\ OkOrEngine(report["query_opt_rid"], <<OptRow(<<rid>>)>>)
    /\ OkOrEngine(report["query_opt_norid"], <<OptRow(<<>>)>>)
    /\ (report["query_opt_norid"].tag = "Ok" /\ report["select_opt"].tag = "Ok")
            => report["query_opt_norid"] = report["select_opt"]
    /\ store # <<>> =>
        \A text \in {QUERY_ALL, QUERY_ALL_RID} :
            LET r == db_query_take(text, BuildingWithRidOptionString, TRUE)
            IN  /\ r.tag = "Ok"
                /\ Len(r.rows) = 1
                /\ r.rows[1].rid # <<>> <=> text = QUERY_ALL_RID
                /\ r.rows[1].rid # <<>> => r.rows[1].rid = <<rid>>
                /\ r.rows[1].address = address

C2_Witness ==
    /\ report["query_opt_norid"].tag = "Ok"
    /\ report["query_opt_rid"].tag = "Ok"
    /\ report["query_opt_rid"].rows[1].rid = <<SeededRid>>

\* C3: into the shape with rid: String, db.select fails with "missing field",
\* a query without meta::id(id) AS rid fails the same way, and only a query
\* that asks for it succeeds; the failure is an Err, never an Ok row with a
\* defaulted rid.
C3_RequiredRidMissingField ==
    /\ report["select_req"].tag # "Ok"
    /\ report["select_req"].tag = "Err"
            => report["select_req"].msg \in {MissingField, EngineError}
    /\ pc = "ret_select" /\ ret = "Ok" => report["select_req"] = Err(MissingField)
    /\ store # <<>> =>
        /\ db_select(BuildingWithRidString, TRUE) = Err(MissingField)
        /\ db_query_take(QUERY_ALL, BuildingWithRidString, TRUE) = Err(MissingField)
        /\ db_query_take(QUERY_ALL_RID, BuildingWithRidString, TRUE)
                = Ok(<<[rid |-> rid, address |-> address]>>)

C3_Witness ==
    /\ report["select_req"] = Err(MissingField)
    /\ rid = SeededRid
    /\ pc = "ret_select"

\* C4: into the shape that declares only address, db.select and both query
\* texts succeed with the stored address; the identifier, and the rid a
\* query surfaces, are dropped.
C4_PlainShapeAlwaysSucceeds ==
    /\ OkOrEngine(report["select_plain"], <<PlainRow>>)
    /\ OkOrEngine(report["query_plain_norid"], <<PlainRow>>)
    /\ OkOrEngine(report["query_plain_rid"], <<PlainRow>>)
    /\ store # <<>> =>
        /\ "id" \in DOMAIN store[1]
        /\ "rid" \in DOMAIN QueryRows(QUERY_ALL_RID)[1]
        /\ db_select(Building, TRUE) = Ok(<<PlainRow>>)
        /\ db_query_take(QUERY_ALL, Building, TRUE) = Ok(<<PlainRow>>)
        /\ db_query_take(QUERY_ALL_RID, Building, TRUE) = Ok(<<PlainRow>>)

C4_Witness ==
    /\ report["select_plain"].tag = "Ok"
    /\ report["query_plain_norid"].tag = "Ok"
    /\ report["query_plain_rid"].tag = "Ok"
    /\ address = SeededAddress

SeededTblId ==
    <<"b", "u", "i", "l", "d", "i", "n", "g", "_", "t", "b", "l", ":", BRACKET_L,
      "1", "2", "3", "4", "5", "6", "7", "8", "9", "0", BRACKET_R>>

\* C5: for the record fetched with id: Thing, get_tbl() is the collection it
\* was created in, get_id() is the key it was created with and holds no
\* bracket, and get_tbl_id() is get_tbl() ":" bracket get_id() bracket; for
\* the seeded record that is building_tbl, 1234567890 and the wrapped form.
C5_AccessorsOfFetchedRecord ==
    report["select_thing"].tag = "Ok" =>
        /\ Len(report["select_thing"].rows) = 1
        /\ LET t == report["select_thing"].rows[1].id
           IN  /\ get_tbl(t) = table
               /\ get_id(t) = rid
               /\ \A i \in 1..Len(get_id(t)) : get_id(t)[i] \notin {BRACKET_L, BRACKET_R}
               /\ get_tbl_id(t)
                    = get_tbl(t) \o <<":">> \o <<BRACKET_L>> \o get_id(t) \o <<BRACKET_R>>
               /\ rid = SeededRid => get_tbl_id(t) = SeededTblId

C5_Witness ==
    /\ printed = <<[tbl_id |-> SeededTblId, id |-> SeededRid, tbl |-> table]>>
    /\ pc = "ret_thing"

\* C7 as stated: when main has ended, whatever check failed, every check
\* has been evaluated and reported.
C7_AsStated ==
    pc \in {"done", "err", "panicked"} /\ store # <<>>
        => \A c \in Checks : report[c].tag # "Unset"

\* select_req passes on the expected "missing field" error, the others on Ok
Passed(c) ==
    IF c = "select_req"
    THEN report[c] = Err(MissingField)
    ELSE report[c].tag = "Ok"

Failed(c) == report[c].tag # "Unset" /\ ~Passed(c)

\* C7 (amended): a failing check ends its test function and main with it:
\* a check is evaluated only when every check before it passed, and once
\* main has ended on an error the checks after the failing one are unset.
C7_FailureStopsLaterChecks ==
    /\ \A i \in 1..Len(Order) :
            report[Order[i]].tag # "Unset"
                => \A j \in 1..(i - 1) : Passed(Order[j])
    /\ (pc \in {"err", "panicked"} /\ store # <<>>) =>
            \E i \in 1..Len(Order) :
                /\ Failed(Order[i])
                /\ \A j \in (i + 1)..Len(Order) : report[Order[j]] = Unset
    /\ pc = "done" => \A c \in Checks : Passed(c)

C7_Witness ==
    /\ pc = "err"
    /\ report["select_opt"].tag = "Ok"
    /\ report["select_plain"] = Err(EngineError)
    /\ report["select_req"] = Unset
    /\ report["select_thing"] = Unset

\* a result that says something about the collection (the engine answered)
Settled(r) == r.tag # "Unset" /\ ~(r.tag = "Err" /\ r.msg = EngineError)

\* C8: after the seeding write no retrieval changes the collection, which
\* keeps holding exactly the seeded record, and a check that is run again,
\* in whatever order, reports what it reported before.
C8_RepeatedChecksAgree ==
    /\ [](store = <<>> \/ store = <<CreatedRow>>)
    /\ [][/\ store # <<>> => store' = store
          /\ \A c \in Checks :
                (Settled(report[c]) /\ Settled(report'[c])) => report'[c] = report[c]]_vars

C8_Witness ==
    /\ runs >= 4
    /\ \A c \in Checks : Settled(report[c])
    /\ report["select_req"] = Err(MissingField)
    /\ pc \in Returns

\* the reading of "Numeric key" the program supports: the key text is a
\* decimal number (main.rs:14-16)
IsNumericKey(t) == IsNumericText(t.id.text)

C10_QueryRidEqualsGetId ==
    /\ report["query_opt_rid"].tag = "Ok" =>
            /\ Len(report["query_opt_rid"].rows) = 1
            /\ report["query_opt_rid"].rows[1].rid = <<rid>>
    /\ report["select_thing"].tag = "Ok" =>
            /\ Len(report["select_thing"].rows) = 1
            /\ get_id(report["select_thing"].rows[1].id) = rid
    /\ (report["query_opt_rid"].tag = "Ok" /\ report["select_thing"].tag = "Ok") =>
            report["query_opt_rid"].rows[1].rid
                = <<get_id(report["select_thing"].rows[1].id)>>

C10_Witness ==
    /\ report["query_opt_rid"].tag = "Ok"
    /\ report["select_thing"].tag = "Ok"
    /\ printed # <<>>
    /\ printed[1].id = SeededRid
    /\ report["query_opt_rid"].rows[1].rid = <<SeededRid>>

====
